---- MODULE Spec2Model ----
(***************************************************************************)
(* Model of internal/sign/TLSSigAPI.go: issuance and verification of       *)
(* UserSig tokens (user-buffer codec, canonical signer, envelope codec,    *)
(* verifier) and the pooled zlib writers used by concurrent issuance.      *)
(*                                                                         *)
(* Byte strings are sequences of 0..255.  A Go []byte that may be nil is a *)
(* record [nil |-> BOOLEAN, b |-> bytes].  Go's int (64 bit), int64 and    *)
(* uint64 are kept at their width: a 64-bit word is a sequence of four     *)
(* 16-bit limbs, least significant first, so that conversions between      *)
(* int, uint32, uint64 and int64 and the wrap-around of + are those of the *)
(* program.                                                                *)
(***************************************************************************)
EXTENDS Integers, Sequences, FiniteSets, TLC

VARIABLES
    clock,      \* time.Now().Unix(), a 64-bit word
    phase,      \* "idle" | "issued" | "verified" (position of the caller)
    issued,     \* the last issuance: its inputs, its document, its token
    token,      \* the token text handed to the verifier
    changed,    \* [pos, byte] of the single byte of token changed, or none
    request,    \* the last verification's arguments
    outcome,    \* the last verification's returned error ("nil" = valid)
    ubuf,       \* genUserBuf, statement by statement: the buffer and offset
    pool,       \* zlibWriterPool: the set of pooled writers
    writers,    \* heap of zlib writers: the buffer each is bound to
    bufs,       \* each genSig call's own bytes.Buffer b
    calls       \* each goroutine's genSig call: pc, writer held, call number

vars == <<clock, phase, issued, token, changed, request, outcome, ubuf,
          pool, writers, bufs, calls>>

-----------------------------------------------------------------------------
(* 64-bit words *)

\* radix of a limb: 2^16
Limb == 256 * 256

Word(n) == <<n % Limb, (n \div Limb) % Limb, 0, 0>>

Zero64 == <<0, 0, 0, 0>>

\* math.MaxInt64
MaxInt64 == <<65535, 65535, 65535, 32767>>

\* a + b in 64 bits, wrapping as Go's + on int64 and uint64 does
Add64(a, b) ==
    LET s1 == a[1] + b[1]
        s2 == a[2] + b[2] + s1 \div Limb
        s3 == a[3] + b[3] + s2 \div Limb
        s4 == a[4] + b[4] + s3 \div Limb
    IN  <<s1 % Limb, s2 % Limb, s3 % Limb, s4 % Limb>>

Not64(a) == <<Limb - 1 - a[1], Limb - 1 - a[2], Limb - 1 - a[3], Limb - 1 - a[4]>>

\* two's complement negation
Neg64(a) == Add64(Not64(a), Word(1))

IsNeg64(a) == a[4] >= 32768

\* a < b as unsigned 64-bit words
LtU64(a, b) ==
    \E i \in 1..4 : a[i] < b[i] /\ \A j \in (i + 1)..4 : a[j] = b[j]

\* a > b as int64 (two's complement)
GtI64(a, b) ==
    IF IsNeg64(a) # IsNeg64(b) THEN IsNeg64(b) ELSE LtU64(b, a)

\* quotient and remainder of an unsigned word by 10
DivMod10(a) ==
    LET c4 == a[4]
        c3 == (c4 % 10) * Limb + a[3]
        c2 == (c3 % 10) * Limb + a[2]
        c1 == (c2 % 10) * Limb + a[1]
    IN  [q |-> <<c1 \div 10, c2 \div 10, c3 \div 10, c4 \div 10>>, r |-> c1 % 10]

\* strconv.FormatUint(a, 10): the decimal digits, as ASCII
RECURSIVE FormatUint(_)
FormatUint(a) ==
    LET d == DivMod10(a)
    IN  IF d.q = Zero64 THEN <<48 + d.r>> ELSE Append(FormatUint(d.q), 48 + d.r)

\* strconv.FormatInt(a, 10)
FormatInt(a) ==
    IF IsNeg64(a) THEN <<45>> \o FormatUint(Neg64(a)) ELSE FormatUint(a)

\* a * 10 + d as an unsigned word; ok is FALSE when it does not fit 64 bits
MulAdd10(a, d) ==
    LET s1 == a[1] * 10 + d
        s2 == a[2] * 10 + s1 \div Limb
        s3 == a[3] * 10 + s2 \div Limb
        s4 == a[4] * 10 + s3 \div Limb
    IN  [v |-> <<s1 % Limb, s2 % Limb, s3 % Limb, s4 % Limb>>, ok |-> s4 < Limb]

Lowest(S) == CHOOSE i \in S : \A j \in S : i <= j

IsDigit(c) == c \in 48..57

\* strconv.ParseUint(s, 10, 64) of a string of digits
RECURSIVE ParseUint(_)
ParseUint(s) ==
    IF s = <<>> THEN [v |-> Zero64, ok |-> TRUE]
    ELSE LET p == ParseUint(SubSeq(s, 1, Len(s) - 1))
             m == MulAdd10(p.v, s[Len(s)] - 48)
         IN  [v |-> m.v, ok |-> p.ok /\ m.ok]

-----------------------------------------------------------------------------
(* uint32 values: two limbs, least significant first *)

\* the conversion uint32(x) of a 64-bit word: its low 32 bits
U32(w) == <<w[1], w[2]>>

\* the four statements (byte)((x & 0xFF000000) >> 24) ... (byte)(x & 0xFF)
BytesBE32(x) == <<x[2] \div 256, x[2] % 256, x[1] \div 256, x[1] % 256>>

\* a possibly-nil []byte
NilBuf == [nil |-> TRUE, b |-> <<>>]
Buf(b) == [nil |-> FALSE, b |-> b]

-----------------------------------------------------------------------------
(* genUserBuf.  u is the function's local state: the allocated userBuf,    *)
(* offset, how often each index was stored to, and whether an index        *)
(* expression went out of range (a run-time panic).                        *)

\* the length without the two bytes of the room string's length
ubLengthShort(account, roomStr) == 1 + 2 + Len(account) + 20 + Len(roomStr)

\* length := 1 + 2 + len(account) + 20 + len(roomStr), + 2 if roomStr # ""
ubLength(account, roomStr) ==
    LET length == 1 + 2 + Len(account) + 20 + Len(roomStr)
    IN  IF Len(roomStr) > 0 THEN length + 2 ELSE length

\* userBuf := make([]byte, length); offset := 0
ubMake(account, roomStr) ==
    [buf    |-> [i \in 1..ubLength(account, roomStr) |-> 0],
     hits   |-> [i \in 1..ubLength(account, roomStr) |-> 0],
     offset |-> 0,
     panic  |-> FALSE]

\* userBuf[offset] = v; offset++
ubStore(u, v) ==
    IF u.panic THEN u
    ELSE IF u.offset >= Len(u.buf) THEN [u EXCEPT !.panic = TRUE]
    ELSE [u EXCEPT !.buf[u.offset + 1] = v,
                   !.hits[u.offset + 1] = @ + 1,
                   !.offset = @ + 1]

RECURSIVE ubStoreAll(_, _)
ubStoreAll(u, bs) ==
    IF bs = <<>> THEN u ELSE ubStoreAll(ubStore(u, Head(bs)), Tail(bs))

\* //ver
ubVer(u, roomStr) == ubStore(u, IF Len(roomStr) > 0 THEN 1 ELSE 0)

\* the two length bytes: (len & 0xFF00) >> 8, len & 0x00FF
LenBytes(n) == <<(n \div 256) % 256, n % 256>>

ubAccountLen(u, account) == ubStoreAll(u, LenBytes(Len(account)))

\* for ; offset < len(account)+3; offset++ { userBuf[offset] = account[offset-3] }
\* its condition, one run of its body and post statement, the whole loop
ubAccountCond(u, account) == ~u.panic /\ u.offset < Len(account) + 3

ubAccountBody(u, account) ==
    IF u.offset - 3 \notin 0..(Len(account) - 1)
    THEN [u EXCEPT !.panic = TRUE]
    ELSE ubStore(u, account[u.offset - 3 + 1])

RECURSIVE ubAccount(_, _)
ubAccount(u, account) ==
    IF ubAccountCond(u, account)
    THEN ubAccount(ubAccountBody(u, account), account)
    ELSE u

\* //dwSdkAppid, with appid := uint32(dwSdkappid)
ubAppid(u, dwSdkappid) == ubStoreAll(u, BytesBE32(U32(dwSdkappid)))

\* //dwAuthId
ubAuthID(u, dwAuthID) == ubStoreAll(u, BytesBE32(dwAuthID))

\* //dwExpTime: expire = currTime + int64(dwExpTime), its low four bytes
ubExpTime(u, currTime, dwExpTime) ==
    ubStoreAll(u, BytesBE32(U32(Add64(currTime, dwExpTime))))

\* //dwPrivilegeMap
ubPrivilegeMap(u, dwPrivilegeMap) == ubStoreAll(u, BytesBE32(dwPrivilegeMap))

\* //dwAccountType
ubAccountType(u, dwAccountType) == ubStoreAll(u, BytesBE32(dwAccountType))

\* if len(roomStr) > 0 { the two length bytes
ubRoomLen(u, roomStr) ==
    IF Len(roomStr) > 0 THEN ubStoreAll(u, LenBytes(Len(roomStr))) ELSE u

\* for ; offset < length; offset++ { userBuf[offset] = roomStr[offset-(length-len(roomStr))] }
\* inside that if: its condition, one run of its body, the whole loop
ubRoomCond(u, roomStr) == Len(roomStr) > 0 /\ ~u.panic /\ u.offset < Len(u.buf)

ubRoomBody(u, roomStr) ==
    LET idx == u.offset - (Len(u.buf) - Len(roomStr))
    IN  IF idx \notin 0..(Len(roomStr) - 1)
        THEN [u EXCEPT !.panic = TRUE]
        ELSE ubStore(u, roomStr[idx + 1])

RECURSIVE ubRoomLoop(_, _)
ubRoomLoop(u, roomStr) ==
    IF ubRoomCond(u, roomStr)
    THEN ubRoomLoop(ubRoomBody(u, roomStr), roomStr)
    ELSE u

\* the statements of genUserBuf in program order; step k of 1..ubSteps
ubStep(k, u, a) ==
    CASE k = 1 -> ubVer(u, a.roomStr)
      [] k = 2 -> ubAccountLen(u, a.account)
      [] k = 3 -> ubAccount(u, a.account)
      [] k = 4 -> ubAppid(u, a.dwSdkappid)
      [] k = 5 -> ubAuthID(u, a.dwAuthID)
      [] k = 6 -> ubExpTime(u, a.currTime, a.dwExpTime)
      [] k = 7 -> ubPrivilegeMap(u, a.dwPrivilegeMap)
      [] k = 8 -> ubAccountType(u, a.dwAccountType)
      [] k = 9 -> ubRoomLen(u, a.roomStr)
      [] k = 10 -> ubRoomLoop(u, a.roomStr)

ubSteps == 10

RECURSIVE ubRun(_, _, _)
ubRun(k, u, a) == IF k > ubSteps THEN u ELSE ubRun(k + 1, ubStep(k, u, a), a)

UserBufArgs(account, dwSdkappid, dwAuthID, dwExpTime, dwPrivilegeMap, dwAccountType, roomStr, currTime) ==
    [account |-> account, dwSdkappid |-> dwSdkappid, dwAuthID |-> dwAuthID,
     dwExpTime |-> dwExpTime, dwPrivilegeMap |-> dwPrivilegeMap,
     dwAccountType |-> dwAccountType, roomStr |-> roomStr, currTime |-> currTime]

\* genUserBuf's returned userBuf; currTime is what time.Now().Unix() returns
genUserBuf(account, dwSdkappid, dwAuthID, dwExpTime, dwPrivilegeMap, dwAccountType, roomStr, currTime) ==
    ubRun(1, ubMake(account, roomStr),
          UserBufArgs(account, dwSdkappid, dwAuthID, dwExpTime, dwPrivilegeMap,
                      dwAccountType, roomStr, currTime)).buf

-----------------------------------------------------------------------------
(* encoding/base64 *)

\* the padding character '='
StdPadding == 61

\* base64.StdEncoding's alphabet: the character of a 6-bit value
StdChar(v) ==
    IF v < 26 THEN 65 + v
    ELSE IF v < 52 THEN 97 + (v - 26)
    ELSE IF v < 62 THEN 48 + (v - 52)
    ELSE IF v = 62 THEN 43 ELSE 47

\* the 6-bit value of a character, -1 for a character outside the alphabet
StdValue(c) ==
    IF c \in 65..90 THEN c - 65
    ELSE IF c \in 97..122 THEN c - 97 + 26
    ELSE IF c \in 48..57 THEN c - 48 + 52
    ELSE IF c = 43 THEN 62
    ELSE IF c = 47 THEN 63 ELSE -1

\* the URL-safe alphabet: '-' and '_' in place of '+' and '/'
URLChar(v) == IF v = 62 THEN 45 ELSE IF v = 63 THEN 95 ELSE StdChar(v)

URLValue(c) ==
    IF c = 45 THEN 62
    ELSE IF c = 95 THEN 63
    ELSE IF c \in {43, 47} THEN -1 ELSE StdValue(c)

\* the two encodings used, named as in encoding/base64
StdEncoding == "StdEncoding"
URLEncoding == "URLEncoding"

\* an encoding's alphabet and its decode map
encodeChar(enc, v) == IF enc = URLEncoding THEN URLChar(v) ELSE StdChar(v)

decodeValue(enc, c) == IF enc = URLEncoding THEN URLValue(c) ELSE StdValue(c)

\* Encoding.EncodeToString: 3 bytes to 4 characters, the last group padded
EncodeToString(enc, b) ==
    LET n == Len(b)
        at(i) == IF i <= n THEN b[i] ELSE 0
        quantum(g) == at(3 * g + 1) * 65536 + at(3 * g + 2) * 256 + at(3 * g + 3)
        sextet(g, j) ==
            CASE j = 0 -> quantum(g) \div 262144
              [] j = 1 -> (quantum(g) \div 4096) % 64
              [] j = 2 -> (quantum(g) \div 64) % 64
              [] j = 3 -> quantum(g) % 64
    IN  [k \in 1..(4 * ((n + 2) \div 3)) |->
            LET g == (k - 1) \div 4
                j == (k - 1) % 4
            IN  IF 3 * g + j > n THEN StdPadding ELSE encodeChar(enc, sextet(g, j))]

\* Encoding.DecodeString: '\r' and '\n' are skipped, the text is read in
\* groups of four characters, only the last may end in one or two '=', and
\* the bits of the last group beyond its bytes are not looked at
DecodeString(enc, text) ==
    LET s == SelectSeq(text, LAMBDA c : c \notin {10, 13})
        n == Len(s)
        npad == IF n >= 2 /\ s[n] = StdPadding
                THEN (IF s[n - 1] = StdPadding THEN 2 ELSE 1)
                ELSE 0
        v(i) == IF i > n - npad THEN 0 ELSE decodeValue(enc, s[i])
        quantum(g) == v(4 * g + 1) * 262144 + v(4 * g + 2) * 4096
                        + v(4 * g + 3) * 64 + v(4 * g + 4)
        byte(g, j) ==
            CASE j = 0 -> quantum(g) \div 65536
              [] j = 1 -> (quantum(g) \div 256) % 256
              [] j = 2 -> quantum(g) % 256
    IN  IF n % 4 # 0 \/ \E i \in 1..(n - npad) : decodeValue(enc, s[i]) = -1
        THEN [ok |-> FALSE, b |-> <<>>]
        ELSE [ok |-> TRUE,
              b  |-> [k \in 1..(3 * (n \div 4) - npad) |->
                        byte((k - 1) \div 3, (k - 1) % 3)]]

-----------------------------------------------------------------------------
(* the canonical signer *)

sigIdentifier == <<84, 76, 83, 46, 105, 100, 101, 110, 116, 105, 102, 105, 101, 114, 58>>
sigSdkAppID   == <<84, 76, 83, 46, 115, 100, 107, 97, 112, 112, 105, 100, 58>>
sigTime       == <<84, 76, 83, 46, 116, 105, 109, 101, 58>>
sigExpire     == <<84, 76, 83, 46, 101, 120, 112, 105, 114, 101, 58>>
sigUserBuf    == <<84, 76, 83, 46, 117, 115, 101, 114, 98, 117, 102, 58>>
sigEnter      == <<10>>

\* hmac.New(sha256.New, key) ... h.Sum(nil): the MAC of msg under key.  The
\* MAC is taken to be collision free: its value stands for the pair (key,
\* msg), written as bytes (the key's length, the key, the message).
hmacSum(key, msg) == <<Len(key)>> \o key \o msg

\* the bytes written to h by userSig.sign, in order
signMessage(u) ==
    sigIdentifier \o u.Identifier \o sigEnter
    \o sigSdkAppID \o FormatUint(u.SdkAppID) \o sigEnter
    \o sigTime \o FormatInt(u.Time) \o sigEnter
    \o sigExpire \o FormatInt(u.Expire) \o sigEnter
    \o (IF ~u.UserBuf.nil
        THEN sigUserBuf \o EncodeToString(StdEncoding, u.UserBuf.b) \o sigEnter
        ELSE <<>>)

\* func (u userSig) sign(key string) []byte
sign(u, key) == hmacSum(key, signMessage(u))

-----------------------------------------------------------------------------
(* type userSig struct, and encoding/json on it *)

\* the zero value userSig{}
ZeroUserSig ==
    [Version |-> <<>>, Identifier |-> <<>>, SdkAppID |-> Zero64,
     Expire |-> Zero64, Time |-> Zero64, UserBuf |-> NilBuf, Sig |-> NilBuf]

\* the json tags of userSig's fields
tagVersion    == <<84, 76, 83, 46, 118, 101, 114>>
tagIdentifier == <<84, 76, 83, 46, 105, 100, 101, 110, 116, 105, 102, 105, 101, 114>>
tagSdkAppID   == <<84, 76, 83, 46, 115, 100, 107, 97, 112, 112, 105, 100>>
tagExpire     == <<84, 76, 83, 46, 101, 120, 112, 105, 114, 101>>
tagTime       == <<84, 76, 83, 46, 116, 105, 109, 101>>
tagUserBuf    == <<84, 76, 83, 46, 117, 115, 101, 114, 98, 117, 102>>
tagSig        == <<84, 76, 83, 46, 115, 105, 103>>

At(s, i) == IF i \in 1..Len(s) THEN s[i] ELSE -1

IsCont(c) == c \in 128..191

\* unicode/utf8: the length of the valid encoding that starts at s[i], 0 if
\* the bytes there are not valid UTF-8
RuneLen(s, i) ==
    LET c  == At(s, i)
        c2 == At(s, i + 1)
        c3 == At(s, i + 2)
        c4 == At(s, i + 3)
    IN  IF c \in 0..127 THEN 1
        ELSE IF c \in 194..223 THEN (IF IsCont(c2) THEN 2 ELSE 0)
        ELSE IF c \in 224..239
        THEN (IF /\ c2 \in (IF c = 224 THEN 160..191
                            ELSE IF c = 237 THEN 128..159 ELSE 128..191)
                 /\ IsCont(c3)
              THEN 3 ELSE 0)
        ELSE IF c \in 240..244
        THEN (IF /\ c2 \in (IF c = 240 THEN 144..191
                            ELSE IF c = 244 THEN 128..143 ELSE 128..191)
                 /\ IsCont(c3) /\ IsCont(c4)
              THEN 4 ELSE 0)
        ELSE 0

HexDigit(v) == IF v < 10 THEN 48 + v ELSE 97 + (v - 10)

HexValue(c) ==
    IF c \in 48..57 THEN c - 48
    ELSE IF c \in 97..102 THEN c - 97 + 10
    ELSE IF c \in 65..70 THEN c - 65 + 10 ELSE -1

\* the encoder's text for one ASCII byte of a string (HTML escaping is on)
jsonEscapeByte(b) ==
    IF b \in {34, 92} THEN <<92, b>>
    ELSE IF b = 10 THEN <<92, 110>>
    ELSE IF b = 13 THEN <<92, 114>>
    ELSE IF b = 9 THEN <<92, 116>>
    ELSE IF b < 32 \/ b \in {60, 62, 38}
    THEN <<92, 117, 48, 48, HexDigit(b \div 16), HexDigit(b % 16)>>
    ELSE <<b>>

\* the encoder's text for the string s from byte i on: bytes that are not
\* valid UTF-8 are written as the six characters of the escape for U+FFFD,
\* and U+2028 and U+2029 as their six-character escapes
RECURSIVE jsonEscape(_, _)
jsonEscape(s, i) ==
    IF i > Len(s) THEN <<>>
    ELSE IF s[i] < 128 THEN jsonEscapeByte(s[i]) \o jsonEscape(s, i + 1)
    ELSE LET w == RuneLen(s, i)
         IN  IF w = 0
             THEN <<92, 117, 102, 102, 102, 100>> \o jsonEscape(s, i + 1)
             ELSE IF w = 3 /\ s[i] = 226 /\ s[i + 1] = 128 /\ s[i + 2] \in {168, 169}
             THEN <<92, 117, 50, 48, 50, HexDigit(s[i + 2] - 160)>> \o jsonEscape(s, i + 3)
             ELSE SubSeq(s, i, i + w - 1) \o jsonEscape(s, i + w)

jsonString(s) == <<34>> \o jsonEscape(s, 1) \o <<34>>

jsonMember(tag, value) == <<<<34>> \o tag \o <<34, 58>> \o value>>

\* the fields json writes for a userSig: every field is omitempty, so an
\* empty string, a zero number and a []byte of length 0 (nil or not) are left out
jsonMembers(u) ==
    (IF u.Version # <<>> THEN jsonMember(tagVersion, jsonString(u.Version)) ELSE <<>>)
    \o (IF u.Identifier # <<>>
        THEN jsonMember(tagIdentifier, jsonString(u.Identifier)) ELSE <<>>)
    \o (IF u.SdkAppID # Zero64
        THEN jsonMember(tagSdkAppID, FormatUint(u.SdkAppID)) ELSE <<>>)
    \o (IF u.Expire # Zero64
        THEN jsonMember(tagExpire, FormatInt(u.Expire)) ELSE <<>>)
    \o (IF u.Time # Zero64
        THEN jsonMember(tagTime, FormatInt(u.Time)) ELSE <<>>)
    \o (IF Len(u.UserBuf.b) # 0
        THEN jsonMember(tagUserBuf,
                        <<34>> \o EncodeToString(StdEncoding, u.UserBuf.b) \o <<34>>)
        ELSE <<>>)
    \o (IF Len(u.Sig.b) # 0
        THEN jsonMember(tagSig, <<34>> \o EncodeToString(StdEncoding, u.Sig.b) \o <<34>>)
        ELSE <<>>)

RECURSIVE jsonJoin(_)
jsonJoin(ms) ==
    IF ms = <<>> THEN <<>>
    ELSE IF Len(ms) = 1 THEN ms[1]
    ELSE ms[1] \o <<44>> \o jsonJoin(Tail(ms))

\* json.NewEncoder(w).Encode(sigDoc): the object and a newline
jsonEncode(u) == <<123>> \o jsonJoin(jsonMembers(u)) \o <<125, 10>>

\* the UTF-8 bytes of a code point below 65536 (a surrogate half decodes to
\* U+FFFD; surrogate pairs are not in the model's inputs)
utf8Bytes(r) ==
    IF r < 128 THEN <<r>>
    ELSE IF r < 2048 THEN <<192 + (r \div 64), 128 + (r % 64)>>
    ELSE IF r \in 55296..57343 THEN <<239, 191, 189>>
    ELSE <<224 + (r \div 4096), 128 + ((r \div 64) % 64), 128 + (r % 64)>>

jsonFail == [ok |-> FALSE, v |-> <<>>, next |-> 0]

jsonCons(bytes, r) == IF r.ok THEN [r EXCEPT !.v = bytes \o @] ELSE r

\* a byte of a string literal the decoder copies as it is
jsonPlain(c) == c \in 32..127 /\ c \notin {34, 92}

\* the decoder's reading of a string literal whose opening quote is before
\* s[i]: its bytes and the index after the closing quote.  j is the first
\* index from i on that holds no plain byte.
RECURSIVE jsonUnquote(_, _)
jsonUnquote(s, i) ==
    LET j == Lowest({k \in i..(Len(s) + 1) : ~jsonPlain(At(s, k))})
        c == At(s, j)
        e == At(s, j + 1)
        h == [k \in 1..4 |-> HexValue(At(s, j + 1 + k))]
        w == RuneLen(s, j)
        rest ==
            IF c = -1 \/ c < 32 THEN jsonFail
            ELSE IF c = 34 THEN [ok |-> TRUE, v |-> <<>>, next |-> j + 1]
            ELSE IF c = 92
            THEN (IF e \in {34, 92, 47} THEN jsonCons(<<e>>, jsonUnquote(s, j + 2))
                  ELSE IF e = 110 THEN jsonCons(<<10>>, jsonUnquote(s, j + 2))
                  ELSE IF e = 114 THEN jsonCons(<<13>>, jsonUnquote(s, j + 2))
                  ELSE IF e = 116 THEN jsonCons(<<9>>, jsonUnquote(s, j + 2))
                  ELSE IF e = 98 THEN jsonCons(<<8>>, jsonUnquote(s, j + 2))
                  ELSE IF e = 102 THEN jsonCons(<<12>>, jsonUnquote(s, j + 2))
                  ELSE IF e = 117 /\ \A k \in 1..4 : h[k] # -1
                  THEN jsonCons(utf8Bytes(h[1] * 4096 + h[2] * 256 + h[3] * 16 + h[4]),
                                jsonUnquote(s, j + 6))
                  ELSE jsonFail)
            ELSE IF w = 0 THEN jsonCons(<<239, 191, 189>>, jsonUnquote(s, j + 1))
            ELSE jsonCons(SubSeq(s, j, j + w - 1), jsonUnquote(s, j + w))
    IN  jsonCons(SubSeq(s, i, j - 1), rest)

IsSpace(c) == c \in {32, 9, 10, 13}

RECURSIVE jsonSkip(_, _)
jsonSkip(s, i) == IF IsSpace(At(s, i)) THEN jsonSkip(s, i + 1) ELSE i

RECURSIVE jsonDigitsEnd(_, _)
jsonDigitsEnd(s, i) == IF IsDigit(At(s, i)) THEN jsonDigitsEnd(s, i + 1) ELSE i

\* a value at s[i]: a string (kind "s", v its bytes) or an integer literal
\* (kind "n", v its text).  Other values (fractions, exponents, true, false,
\* null, arrays, nested objects) are not in the model's inputs and are
\* reported as not parsed.
jsonValue(s, i) ==
    LET c  == At(s, i)
        d0 == IF c = 45 THEN i + 1 ELSE i
        d1 == jsonDigitsEnd(s, d0)
        q  == jsonUnquote(s, i + 1)
    IN  IF c = 34
        THEN [ok |-> q.ok, kind |-> "s", v |-> q.v, next |-> q.next]
        ELSE IF /\ d1 > d0
                /\ (At(s, d0) = 48 => d1 = d0 + 1)
                /\ At(s, d1) \notin {46, 101, 69}
        THEN [ok |-> TRUE, kind |-> "n", v |-> SubSeq(s, i, d1 - 1), next |-> d1]
        ELSE [ok |-> FALSE, kind |-> "", v |-> <<>>, next |-> 0]

\* strconv.ParseInt(lit, 10, 64) of an integer literal with an optional '-'
ParseInt(lit) ==
    LET neg == At(lit, 1) = 45
        m   == ParseUint(IF neg THEN Tail(lit) ELSE lit)
    IN  IF neg
        THEN [v |-> Neg64(m.v), ok |-> m.ok /\ (~IsNeg64(m.v) \/ m.v = <<0, 0, 0, 32768>>)]
        ELSE [v |-> m.v, ok |-> m.ok /\ ~IsNeg64(m.v)]

\* the decoder storing one member into the userSig u: ok is FALSE when the
\* value does not fit the field's type; members with other names are skipped
jsonAssign(u, key, val) ==
    LET isStr == val.kind = "s"
        isNum == val.kind = "n"
        un    == ParseUint(val.v)
        in    == ParseInt(val.v)
        raw   == DecodeString(StdEncoding, val.v)
    IN  IF key = tagVersion
        THEN [ok |-> isStr, u |-> IF isStr THEN [u EXCEPT !.Version = val.v] ELSE u]
        ELSE IF key = tagIdentifier
        THEN [ok |-> isStr, u |-> IF isStr THEN [u EXCEPT !.Identifier = val.v] ELSE u]
        ELSE IF key = tagSdkAppID
        THEN (IF isNum /\ At(val.v, 1) # 45 /\ un.ok
              THEN [ok |-> TRUE, u |-> [u EXCEPT !.SdkAppID = un.v]]
              ELSE [ok |-> FALSE, u |-> u])
        ELSE IF key \in {tagExpire, tagTime}
        THEN (IF isNum /\ in.ok
              THEN [ok |-> TRUE,
                    u  |-> IF key = tagExpire THEN [u EXCEPT !.Expire = in.v]
                                              ELSE [u EXCEPT !.Time = in.v]]
              ELSE [ok |-> FALSE, u |-> u])
        ELSE IF key \in {tagUserBuf, tagSig}
        THEN (IF isStr /\ raw.ok
              THEN [ok |-> TRUE,
                    u  |-> IF key = tagUserBuf THEN [u EXCEPT !.UserBuf = Buf(raw.b)]
                                               ELSE [u EXCEPT !.Sig = Buf(raw.b)]]
              ELSE [ok |-> FALSE, u |-> u])
        ELSE [ok |-> TRUE, u |-> u]

\* the members of an object from s[i] (the first character of a member) on,
\* up to the closing brace, after which only white space may follow
RECURSIVE jsonObject(_, _, _)
jsonObject(s, i, u) ==
    LET key == jsonUnquote(s, i + 1)
        col == jsonSkip(s, key.next)
        val == jsonValue(s, jsonSkip(s, col + 1))
        set == jsonAssign(u, key.v, val)
        sep == jsonSkip(s, val.next)
    IN  IF At(s, i) # 34 \/ ~key.ok \/ At(s, col) # 58 \/ ~val.ok \/ ~set.ok
        THEN [ok |-> FALSE, u |-> u]
        ELSE IF At(s, sep) = 44 THEN jsonObject(s, jsonSkip(s, sep + 1), set.u)
        ELSE IF At(s, sep) = 125 /\ jsonSkip(s, sep + 1) > Len(s)
        THEN [ok |-> TRUE, u |-> set.u]
        ELSE [ok |-> FALSE, u |-> u]

\* json.Unmarshal(data, &sig) into a zero userSig: ok is FALSE when it
\* returns an error
jsonUnmarshal(data) ==
    LET open  == jsonSkip(data, 1)
        first == jsonSkip(data, open + 1)
    IN  IF At(data, open) # 123 THEN [ok |-> FALSE, u |-> ZeroUserSig]
        ELSE IF At(data, first) = 125
        THEN [ok |-> jsonSkip(data, first + 1) > Len(data), u |-> ZeroUserSig]
        ELSE jsonObject(data, first, ZeroUserSig)

-----------------------------------------------------------------------------
(* compress/zlib at level DefaultCompressionLevel = zlib.NoCompression *)

\* the sum over i in lo..hi of data[i], modulo 65521
RECURSIVE adlerSum(_, _, _)
adlerSum(data, lo, hi) ==
    IF lo > hi THEN 0
    ELSE IF lo = hi THEN data[lo]
    ELSE LET mid == (lo + hi) \div 2
         IN  (adlerSum(data, lo, mid) + adlerSum(data, mid + 1, hi)) % 65521

\* the sum over i in lo..hi of (top - i) * data[i], modulo 65521
RECURSIVE adlerWeighted(_, _, _, _)
adlerWeighted(data, lo, hi, top) ==
    IF lo > hi THEN 0
    ELSE IF lo = hi THEN ((top - lo) * data[lo]) % 65521
    ELSE LET mid == (lo + hi) \div 2
         IN  (adlerWeighted(data, lo, mid, top)
                + adlerWeighted(data, mid + 1, hi, top)) % 65521

\* hash/adler32: the running sums after the bytes of data (for each byte,
\* a += byte and b += a, modulo 65521), in closed form
adlerUpdate(s, data) ==
    LET n == Len(data)
    IN  [a |-> (s.a + adlerSum(data, 1, n)) % 65521,
         b |-> (s.b + ((n * s.a) % 65521) + adlerWeighted(data, 1, n, n + 1)) % 65521]

adlerInit == [a |-> 1, b |-> 0]

\* a checksum that does not depend on the data
adlerBytesConstant(s) == <<0, 0, 0, 1>>

\* the checksum's four bytes, most significant first
adlerBytes(s) == <<s.b \div 256, s.b % 256, s.a \div 256, s.a % 256>>

\* the two header bytes the writer emits at this level: CMF 0x78, FLG 0x01
zlibHeader == <<120, 1>>

\* a stored block: the header byte (BFINAL in bit 0, BTYPE 00, five padding
\* bits), LEN and its complement NLEN, least significant byte first, the data
storedBlock(final, data) ==
    <<final, Len(data) % 256, Len(data) \div 256,
      (65535 - Len(data)) % 256, (65535 - Len(data)) \div 256>> \o data

\* what zlib.NewReader, ioutil.ReadAll and r.Close make of the bytes from
\* block header b[i] on, acc being the data of the blocks before.  A block
\* whose BTYPE says compressed (1, 2) is not decoded by this model: the
\* writer emits none, and input holding one is reported as an error.
RECURSIVE inflate(_, _, _)
inflate(b, i, acc) ==
    LET hdr   == At(b, i)
        final == hdr % 2
        btype == (hdr \div 2) % 4
        len   == At(b, i + 1) + 256 * At(b, i + 2)
        nlen  == At(b, i + 3) + 256 * At(b, i + 4)
        stop  == i + 5 + len
        data  == acc \o SubSeq(b, i + 5, stop - 1)
    IN  IF hdr = -1 \/ btype # 0 THEN [ok |-> FALSE, data |-> <<>>]
        ELSE IF i + 4 > Len(b) \/ nlen # 65535 - len \/ stop - 1 > Len(b)
        THEN [ok |-> FALSE, data |-> <<>>]
        ELSE IF final = 0 THEN inflate(b, stop, data)
        ELSE IF stop + 3 > Len(b)
                \/ SubSeq(b, stop, stop + 3) # adlerBytes(adlerUpdate(adlerInit, data))
        THEN [ok |-> FALSE, data |-> <<>>]
        ELSE [ok |-> TRUE, data |-> data]

\* zlib.NewReader's check of the header (compression method 8, window size
\* at most 7, (CMF*256 + FLG) % 31 = 0, no preset dictionary), then the blocks
zlibRead(b) ==
    IF \/ Len(b) < 2
       \/ b[1] % 16 # 8
       \/ b[1] \div 16 > 7
       \/ (b[1] * 256 + b[2]) % 31 # 0
       \/ (b[2] \div 32) % 2 = 1
    THEN [ok |-> FALSE, data |-> <<>>]
    ELSE inflate(b, 3, <<>>)

\* a *zlib.Writer: the buffer it writes to (dst, 0 before it is made), the
\* bytes written to it and not yet emitted, whether the header was emitted,
\* the running checksum, whether it was closed
NoWriter ==
    [dst |-> 0, window |-> <<>>, wroteHeader |-> FALSE, sum |-> adlerInit,
     closed |-> FALSE]

\* zlib.NewWriterLevel(w, level), and (z *Writer).Reset(w): writing to w anew
zwReset(z, dst) == [NoWriter EXCEPT !.dst = dst]

\* (z *Writer).Write(p): [z |-> the writer after, out |-> bytes emitted to dst]
zwWrite(z, p) ==
    [z   |-> [z EXCEPT !.wroteHeader = TRUE,
                       !.window = @ \o p,
                       !.sum = adlerUpdate(@, p)],
     out |-> IF z.wroteHeader THEN <<>> ELSE zlibHeader]

\* (z *Writer).Close(): the pending bytes as one stored block, the final
\* empty block, the checksum
zwClose(z) ==
    [z   |-> [z EXCEPT !.wroteHeader = TRUE, !.window = <<>>, !.closed = TRUE],
     out |-> IF z.closed THEN <<>>
             ELSE (IF z.wroteHeader THEN <<>> ELSE zlibHeader)
                  \o (IF z.window # <<>> THEN storedBlock(0, z.window) ELSE <<>>)
                  \o storedBlock(1, <<>>)
                  \o adlerBytes(z.sum)]

-----------------------------------------------------------------------------
(* the outer encoding of a token: base64url.EncodeToString, base64urlDecode *)

\* base64 with the URL-safe alphabet, padded
base64urlEncodeToString(b) == EncodeToString(URLEncoding, b)

\* the inverse: text that EncodeToString does not produce is an error
base64urlDecode(text) ==
    LET r == DecodeString(URLEncoding, text)
    IN  IF r.ok /\ base64urlEncodeToString(r.b) = text
        THEN r ELSE [ok |-> FALSE, b |-> <<>>]

-----------------------------------------------------------------------------
(* unpacking and verifying *)

\* the error values; ErrNil is a nil error.  The errors of base64urlDecode
\* and of the zlib reader are the malformed-input errors.
ErrNil                 == "nil"
ErrBase64              == "illegal base64 data"
ErrZlib                == "zlib: invalid input"
ErrSdkAppIDNotMatch    == "sdk appid not match"
ErrIdentifierNotMatch  == "identifier not match"
ErrExpired             == "expired"
ErrUserBufTypeNotMatch == "userbuf type not match"
ErrUserBufNotMatch     == "userbuf not match"
ErrSigNotMatch         == "sig not match"
\* the error of json.Unmarshal
ErrJSON                == "json: cannot unmarshal"

\* func newUserSig(usersig string) (userSig, error).  The function returns
\* sig and err; dropped is the error json.Unmarshal returned, which the
\* function's last if statement does not pass on.
newUserSig(usersig) ==
    LET b    == base64urlDecode(usersig)
        data == zlibRead(b.b)
        sig  == jsonUnmarshal(data.data)
    IN  IF ~b.ok THEN [sig |-> ZeroUserSig, err |-> ErrBase64, dropped |-> ErrNil]
        ELSE IF ~data.ok THEN [sig |-> ZeroUserSig, err |-> ErrZlib, dropped |-> ErrNil]
        ELSE IF ~sig.ok THEN [sig |-> ZeroUserSig, err |-> ErrNil, dropped |-> ErrJSON]
        ELSE [sig |-> sig.u, err |-> ErrNil, dropped |-> ErrNil]

\* verify with the expiry comparison off by one: >= where the code has >
verifyOffByOne(u, sdkappid, key, userid, now, userbuf) ==
    IF sdkappid # u.SdkAppID THEN ErrSdkAppIDNotMatch
    ELSE IF userid # u.Identifier THEN ErrIdentifierNotMatch
    ELSE IF ~GtI64(Add64(u.Time, u.Expire), now) THEN ErrExpired
    ELSE IF ~userbuf.nil /\ u.UserBuf.nil THEN ErrUserBufTypeNotMatch
    ELSE IF ~userbuf.nil /\ userbuf.b # u.UserBuf.b THEN ErrUserBufNotMatch
    ELSE IF userbuf.nil /\ ~u.UserBuf.nil THEN ErrUserBufTypeNotMatch
    ELSE IF sign(u, key) # u.Sig.b THEN ErrSigNotMatch
    ELSE ErrNil

\* func (u userSig) verify(sdkappid, key, userid, now, userbuf) error;
\* now is now.Unix()
verify(u, sdkappid, key, userid, now, userbuf) ==
    IF sdkappid # u.SdkAppID THEN ErrSdkAppIDNotMatch
    ELSE IF userid # u.Identifier THEN ErrIdentifierNotMatch
    ELSE IF GtI64(now, Add64(u.Time, u.Expire)) THEN ErrExpired
    ELSE IF ~userbuf.nil /\ u.UserBuf.nil THEN ErrUserBufTypeNotMatch
    ELSE IF ~userbuf.nil /\ userbuf.b # u.UserBuf.b THEN ErrUserBufNotMatch
    ELSE IF userbuf.nil /\ ~u.UserBuf.nil THEN ErrUserBufTypeNotMatch
    ELSE IF sign(u, key) # u.Sig.b THEN ErrSigNotMatch
    ELSE ErrNil

-----------------------------------------------------------------------------
(* issuing: genSig and the pool of zlib writers.  m is the shared memory:   *)
(* m.pool (zlibWriterPool), m.writers (the writers made so far, by          *)
(* address), m.bufs (the bytes.Buffer values, by address) and m.calls (each *)
(* goroutine's genSig frame: pc, the writer w, its buffer b, sigDoc, the    *)
(* returned values).  Address 0 is nil.                                     *)

\* goroutines that call genSig
NumProcs == 2

Procs == 1..NumProcs

\* addresses of writers: as many as there can be calls holding one
WriterIds == 1..NumProcs

\* buffers: the b of goroutine p's call in progress is buffer p, new and
\* empty at each call; LostBuf stands for the buffers of the calls that have
\* returned, which nothing but a writer still bound to one can reach
LostBuf == NumProcs + 1
BufIds == 1..LostBuf

NoRet == [token |-> <<>>, err |-> ErrNil]

IdleCall == [pc |-> "idle", w |-> 0, b |-> 0, sigDoc |-> ZeroUserSig, ret |-> NoRet]

Memory(po, wr, bu, ca) == [pool |-> po, writers |-> wr, bufs |-> bu, calls |-> ca]

\* the addresses at which no writer has been made
FreeWriters(m) == {z \in WriterIds : m.writers[z].dst = 0}

\* genSig's document signed before Time is set in it
genSigDocSignedEarly(sdkappid, key, identifier, expire, userbuf, currTime) ==
    LET sigDoc == [Version    |-> <<50, 46, 48>>,
                   Identifier |-> identifier,
                   SdkAppID   |-> sdkappid,
                   Expire     |-> expire,
                   Time       |-> Zero64,
                   UserBuf    |-> userbuf,
                   Sig        |-> NilBuf]
    IN  [sigDoc EXCEPT !.Sig = Buf(sign(sigDoc, key)), !.Time = currTime]

\* genSig up to "var b bytes.Buffer": sigDoc is built from the arguments and
\* the clock and signed, b is a new empty buffer
genSigDoc(sdkappid, key, identifier, expire, userbuf, currTime) ==
    LET sigDoc == [Version    |-> <<50, 46, 48>>,
                   Identifier |-> identifier,
                   SdkAppID   |-> sdkappid,
                   Expire     |-> expire,
                   Time       |-> currTime,
                   UserBuf    |-> userbuf,
                   Sig        |-> NilBuf]
    IN  [sigDoc EXCEPT !.Sig = Buf(sign(sigDoc, key))]

genSigEnter(m, p, sigDoc) ==
    [m EXCEPT !.bufs[p] = <<>>,
              !.calls[p] = [IdleCall EXCEPT !.pc = "get", !.b = p, !.sigDoc = sigDoc]]

\* a Get that hands out a pooled writer and leaves it in the pool
poolGetKeeps(po, v) == po

\* zlibWriterPool.Get(): v, a pooled writer taken out of the pool, or 0 (nil)
poolGet(po, v) == po \ {v}

\* newZlibWriter, first half: v := zlibWriterPool.Get(); if v == nil, a new
\* writer on &b is returned; otherwise zw := v.(*zlib.Writer) is still to be
\* reset
newZlibWriterGet(m, p, v) ==
    LET zw == Lowest(FreeWriters(m))
    IN  IF v = 0
        THEN [m EXCEPT !.writers[zw] = zwReset(NoWriter, m.calls[p].b),
                       !.calls[p].w = zw,
                       !.calls[p].pc = "encode"]
        ELSE [m EXCEPT !.pool = poolGet(m.pool, v),
                       !.calls[p].w = v,
                       !.calls[p].pc = "reset"]

\* newZlibWriter, second half: zw.Reset(w); return zw
newZlibWriterReset(m, p) ==
    [m EXCEPT !.writers[m.calls[p].w] = zwReset(@, m.calls[p].b),
              !.calls[p].pc = "encode"]

\* json.NewEncoder(w).Encode(sigDoc) returning nil: one Write to w, whose
\* output goes to the buffer w is bound to
genSigEncode(m, p) ==
    LET w == m.calls[p].w
        r == zwWrite(m.writers[w], jsonEncode(m.calls[p].sigDoc))
    IN  [m EXCEPT !.writers[w] = r.z,
                  !.bufs[m.writers[w].dst] = @ \o r.out,
                  !.calls[p].pc = "close"]

\* w.Close() returning nil, then the operand of return:
\* base64url.EncodeToString(b.Bytes()), nil
genSigClose(m, p) ==
    LET w == m.calls[p].w
        r == zwClose(m.writers[w])
        bs == [m.bufs EXCEPT ![m.writers[w].dst] = @ \o r.out]
    IN  [m EXCEPT !.writers[w] = r.z,
                  !.bufs = bs,
                  !.calls[p].ret = [token |-> base64urlEncodeToString(bs[m.calls[p].b]),
                                    err |-> ErrNil],
                  !.calls[p].pc = "put"]

\* either call returning an error: return "", err
genSigFail(m, p, err) ==
    [m EXCEPT !.calls[p].ret = [token |-> <<>>, err |-> err],
              !.calls[p].pc = "put"]

\* the deferred zlibWriterPool.Put(w), after which genSig has returned what
\* ret holds; its buffer b is then out of reach but for the writer put
genSigPut(m, p) ==
    LET w == m.calls[p].w
    IN  [m EXCEPT !.pool = @ \cup {w},
                  !.writers[w].dst = IF @ = m.calls[p].b THEN LostBuf ELSE @,
                  !.bufs[m.calls[p].b] = <<>>,
                  !.calls[p] = [IdleCall EXCEPT !.ret = m.calls[p].ret]]

\* one genSig call run to its return by goroutine p with no other goroutine
\* in genSig: v is what zlibWriterPool.Get() returns
genSig(m, p, sigDoc, v) ==
    LET m1 == newZlibWriterGet(genSigEnter(m, p, sigDoc), p, v)
        m2 == IF v = 0 THEN m1 ELSE newZlibWriterReset(m1, p)
    IN  genSigPut(genSigClose(genSigEncode(m2, p), p), p)

-----------------------------------------------------------------------------
(* the public entry points, called one after the other by goroutine 1 *)

\* seconds the clock may advance
MaxTick == 1

\* time.Now().Unix() when the clock has advanced by k seconds
Clock0 == Word(1700000000)
UnixTime(k) == Add64(Clock0, Word(k))

NoIssue ==
    [api |-> "none", sdkappid |-> Zero64, key |-> <<>>, userid |-> <<>>,
     expire |-> Zero64, userbuf |-> NilBuf, room |-> <<>>, privilegeMap |-> <<0, 0>>,
     bufTime |-> Zero64, time |-> Zero64, sigDoc |-> ZeroUserSig, ret |-> NoRet]

NoRequest ==
    [api |-> "none", sdkappid |-> Zero64, key |-> <<>>, userid |-> <<>>,
     now |-> Zero64, userbuf |-> NilBuf, sig |-> ZeroUserSig, err |-> ErrNil,
     dropped |-> ErrNil]

NoChange == [pos |-> 0, byte |-> 0]

NoUserBuf == [k |-> 0, args |-> UserBufArgs(<<>>, Zero64, <<0, 0>>, Zero64, <<0, 0>>,
                                             <<0, 0>>, <<>>, Zero64),
              u |-> ubMake(<<>>, <<>>)]

mem == Memory(pool, writers, bufs, calls)

SetMem(m) ==
    /\ pool' = m.pool
    /\ writers' = m.writers
    /\ bufs' = m.bufs
    /\ calls' = m.calls

Init ==
    /\ clock = 0
    /\ phase = "idle"
    /\ issued = NoIssue
    /\ token = <<>>
    /\ changed = NoChange
    /\ request = NoRequest
    /\ outcome = ErrNil
    /\ ubuf = NoUserBuf
    /\ pool = {}
    /\ writers = [z \in WriterIds |-> NoWriter]
    /\ bufs = [i \in BufIds |-> <<>>]
    /\ calls = [p \in Procs |-> IdleCall]

\* what zlibWriterPool.Get() may return: a pooled writer, or nil (0) as long
\* as the heap has room for the writer made then
GetResults(m) == m.pool \cup (IF FreeWriters(m) # {} THEN {0} ELSE {})

\* a call of genSig by goroutine 1 and what the caller then holds; bufTime
\* is the time genUserBuf read before, and genSig reads the clock later
\* seconds after that
Issue(api, sdkappid, key, userid, expire, userbuf, room, privilegeMap, bufTime, later) ==
    /\ phase = "idle"
    /\ clock + later <= MaxTick
    /\ clock' = clock + later
    /\ \E v \in GetResults(mem) :
        LET doc == genSigDoc(sdkappid, key, userid, expire, userbuf,
                             UnixTime(clock + later))
            m   == genSig(mem, 1, doc, v)
        IN  /\ SetMem(m)
            /\ issued' = [api |-> api, sdkappid |-> sdkappid, key |-> key,
                          userid |-> userid, expire |-> expire, userbuf |-> userbuf,
                          room |-> room, privilegeMap |-> privilegeMap,
                          bufTime |-> bufTime, time |-> UnixTime(clock + later),
                          sigDoc |-> doc, ret |-> m.calls[1].ret]
            /\ token' = m.calls[1].ret.token
    /\ phase' = "issued"
    /\ changed' = NoChange
    /\ UNCHANGED <<request, outcome, ubuf>>

\* func GenUserSig(sdkappid int, key string, userid string, expire int)
GenUserSig(sdkappid, key, userid, expire) ==
    Issue("GenUserSig", sdkappid, key, userid, expire, NilBuf, <<>>, <<0, 0>>,
          Zero64, 0)

\* func GenUserSigWithBuf(sdkappid, key, userid, expire, buf []byte)
GenUserSigWithBuf(sdkappid, key, userid, expire, buf) ==
    Issue("GenUserSigWithBuf", sdkappid, key, userid, expire, buf, <<>>, <<0, 0>>,
          Zero64, 0)

\* func GenPrivateMapKey(sdkappid, key, userid, expire, roomid, privilegeMap)
GenPrivateMapKey(sdkappid, key, userid, expire, roomid, privilegeMap, later) ==
    Issue("GenPrivateMapKey", sdkappid, key, userid, expire,
          Buf(genUserBuf(userid, sdkappid, roomid, expire, privilegeMap, <<0, 0>>,
                         <<>>, UnixTime(clock))),
          <<>>, privilegeMap, UnixTime(clock), later)

\* func GenPrivateMapKeyWithStringRoomID(sdkappid, key, userid, expire, roomStr,
\* privilegeMap)
GenPrivateMapKeyWithStringRoomID(sdkappid, key, userid, expire, roomStr, privilegeMap, later) ==
    Issue("GenPrivateMapKeyWithStringRoomID", sdkappid, key, userid, expire,
          Buf(genUserBuf(userid, sdkappid, <<0, 0>>, expire, privilegeMap, <<0, 0>>,
                         roomStr, UnixTime(clock))),
          roomStr, privilegeMap, UnixTime(clock), later)

\* a second passes
Tick ==
    /\ phase = "idle"
    /\ clock < MaxTick
    /\ clock' = clock + 1
    /\ UNCHANGED <<phase, issued, token, changed, request, outcome, ubuf,
                   pool, writers, bufs, calls>>

\* a token that did not come from genSig reaches the verifier
Receive(text) ==
    /\ phase = "idle"
    /\ token' = text
    /\ phase' = "issued"
    /\ issued' = NoIssue
    /\ changed' = NoChange
    /\ UNCHANGED <<clock, request, outcome, ubuf, pool, writers, bufs, calls>>

\* v with bit k flipped
FlipBit(v, k) == IF (v \div (2 ^ k)) % 2 = 1 THEN v - 2 ^ k ELSE v + 2 ^ k

\* the characters put in the place of c: for a character of the alphabet the
\* six whose value differs from c's in one bit, the padding character and
\* '!', which is outside the alphabet; for the padding character 'A' and '!'
Replacements(c) ==
    IF URLValue(c) = -1 THEN {65, 33}
    ELSE {URLChar(FlipBit(URLValue(c), k)) : k \in 0..5} \cup {StdPadding, 33}

\* one character of the token's text is changed on its way to the verifier
ChangeByte ==
    /\ phase = "issued"
    /\ issued.api # "none"
    /\ changed = NoChange
    /\ \E pos \in 1..Len(token) :
          \E byte \in Replacements(token[pos]) :
             /\ token' = [token EXCEPT ![pos] = byte]
             /\ changed' = [pos |-> pos, byte |-> byte]
    /\ UNCHANGED <<clock, phase, issued, request, outcome, ubuf,
                   pool, writers, bufs, calls>>

-----------------------------------------------------------------------------
(* the arguments the calls are made with *)

SdkAppIds  == {Word(1400000000), Word(7)}
IssuerKeys == {<<107>>}
Keys       == IssuerKeys \cup {<<75>>}
\* "a"; "<" and e with an acute accent (two bytes of UTF-8); the byte 0xFF,
\* which is not UTF-8
Identities == {<<97>>, <<60, 195, 169>>, <<255>>}
Expires    == {Zero64, Word(1), MaxInt64}
UserBufs   == {NilBuf, Buf(<<>>), Buf(<<1>>)}
RoomIds    == {<<42, 0>>}
RoomStrs   == {<<114>>, <<115>>}
PrivilegeMaps == {<<255, 0>>}
Nows       == {UnixTime(k) : k \in 0..(MaxTick + 2)}

\* the zlib stream of data as a writer at this level emits it
zlibStream(data) ==
    LET w == zwWrite(zwReset(NoWriter, 1), data)
    IN  w.out \o zwClose(w.z).out

\* tokens made elsewhere: a character outside the alphabet; base64 of bytes
\* that are no zlib stream; envelopes of the texts x, {"TLS.sdkappid":"a"}
\* and {}
Foreign ==
    {<<33>>,
     base64urlEncodeToString(<<1, 2, 3>>),
     base64urlEncodeToString(zlibStream(<<120>>)),
     base64urlEncodeToString(zlibStream(
        <<123, 34>> \o tagSdkAppID \o <<34, 58, 34, 97, 34, 125>>)),
     base64urlEncodeToString(zlibStream(<<123, 125>>))}

\* the user buffers a verifying caller may expect: fixed ones, the one
\* issued, and for a token that carries a room descriptor the descriptors
\* genUserBuf builds from the issuance's other arguments for each room string
ExpectedBufs ==
    {Buf(<<>>), Buf(<<1>>)}
    \cup (IF issued.userbuf.nil THEN {} ELSE {issued.userbuf})
    \cup (IF issued.room = <<>> THEN {}
          ELSE {Buf(genUserBuf(issued.userid, issued.sdkappid, <<0, 0>>, issued.expire,
                               issued.privilegeMap, <<0, 0>>, r, issued.bufTime))
                : r \in RoomStrs})

\* a verification call has returned err; r is what newUserSig returned to it
Verified(api, sdkappid, key, userid, now, userbuf, r, err) ==
    /\ outcome' = err
    /\ request' = [api |-> api, sdkappid |-> sdkappid, key |-> key,
                   userid |-> userid, now |-> now, userbuf |-> userbuf,
                   sig |-> r.sig, err |-> r.err, dropped |-> r.dropped]
    /\ phase' = "verified"
    /\ UNCHANGED <<clock, issued, token, changed, ubuf, pool, writers, bufs, calls>>

\* func VerifyUserSig(sdkappid, key, userid, usersig, now) error, called on
\* the token at hand with arguments from the given sets; r is what its first
\* statement, newUserSig(usersig), returns
VerifyUserSig(r, sdkappids, keys, userids, nows) ==
    /\ phase = "issued"
    /\ \E sdkappid \in sdkappids, key \in keys, userid \in userids, now \in nows :
          Verified("VerifyUserSig", sdkappid, key, userid, now, NilBuf, r,
                   IF r.err # ErrNil THEN r.err
                   ELSE verify(r.sig, sdkappid, key, userid, now, NilBuf))

\* func VerifyUserSigWithBuf(sdkappid, key, userid, usersig, now, userbuf) error,
\* called on the token at hand; r is what newUserSig(usersig) returns
VerifyUserSigWithBuf(r, sdkappids, keys, userids, nows, userbufs) ==
    /\ phase = "issued"
    /\ \E sdkappid \in sdkappids, key \in keys, userid \in userids, now \in nows,
          userbuf \in userbufs :
          Verified("VerifyUserSigWithBuf", sdkappid, key, userid, now, userbuf, r,
                   IF r.err # ErrNil THEN r.err
                   ELSE verify(r.sig, sdkappid, key, userid, now, userbuf))

Next ==
    \/ Tick
    \/ /\ phase = "idle"
       /\ \E a \in SdkAppIds, k \in IssuerKeys, u \in Identities, e \in Expires :
          \/ GenUserSig(a, k, u, e)
          \/ \E b \in UserBufs : GenUserSigWithBuf(a, k, u, e, b)
          \/ \E r \in RoomIds, pm \in PrivilegeMaps, later \in 0..1 :
                GenPrivateMapKey(a, k, u, e, r, pm, later)
          \/ \E r \in RoomStrs, pm \in PrivilegeMaps, later \in 0..1 :
                GenPrivateMapKeyWithStringRoomID(a, k, u, e, r, pm, later)
    \/ \E text \in Foreign : Receive(text)
    \/ VerifyUserSig(newUserSig(token), SdkAppIds, Keys, Identities, Nows)
    \/ VerifyUserSigWithBuf(newUserSig(token), SdkAppIds, Keys, Identities, Nows,
                            ExpectedBufs)

Spec == Init /\ [][Next]_vars

-----------------------------------------------------------------------------
(* the claims about issuing and verifying, checked under Spec *)

\* unicode/utf8.ValidString, from byte i on
RECURSIVE ValidString(_, _)
ValidString(s, i) ==
    IF i > Len(s) THEN TRUE
    ELSE LET w == RuneLen(s, i) IN w # 0 /\ ValidString(s, i + w)

\* a token that genSig issued has been verified
IssuedVerified == phase = "verified" /\ issued.api # "none"

\* the verifying caller passed the application, key and identity of issuance
SameCaller ==
    /\ request.sdkappid = issued.sdkappid
    /\ request.key = issued.key
    /\ request.userid = issued.userid

\* issuedAt + expireSeconds does not exceed the largest int64 (both are >= 0)
NoOverflow == ~IsNeg64(Add64(issued.time, issued.expire))

\* the round trip of C1 for one verified state
RoundTripCase ==
    /\ IssuedVerified
    /\ issued.api = "GenUserSig"
    /\ GtI64(issued.expire, Zero64)
    /\ request.api = "VerifyUserSig"
    /\ SameCaller
    /\ request.now = issued.time

\* C1 as stated: for every identity, applicationId, key and durationSeconds
\* > 0, the token GenUserSig returns at issuedAt is accepted by VerifyUserSig
\* called with the same applicationId, key and identity and now = issuedAt.
C1_RoundTripAsStated == RoundTripCase => outcome = ErrNil

\* C1, amended: the same for every identity that is valid UTF-8 and every
\* durationSeconds > 0 with issuedAt + durationSeconds <= 2^63 - 1.
C1_RoundTrip ==
    (RoundTripCase /\ ValidString(issued.userid, 1) /\ NoOverflow) => outcome = ErrNil

C1_Witness ==
    /\ RoundTripCase
    /\ issued.userid = <<60, 195, 169>>
    /\ issued.expire = Word(1)
    /\ outcome = ErrNil

\* the failure kind of the first of the six steps that fails for the
\* document doc, step 1 having failed with step1 unless that is ErrNil
FirstFailure(step1, doc) ==
    IF step1 # ErrNil THEN step1
    ELSE IF request.sdkappid # doc.SdkAppID THEN ErrSdkAppIDNotMatch
    ELSE IF request.userid # doc.Identifier THEN ErrIdentifierNotMatch
    ELSE IF GtI64(request.now, Add64(doc.Time, doc.Expire)) THEN ErrExpired
    ELSE IF request.userbuf.nil # doc.UserBuf.nil THEN ErrUserBufTypeNotMatch
    ELSE IF request.userbuf.b # doc.UserBuf.b THEN ErrUserBufNotMatch
    ELSE IF sign(doc, request.key) # doc.Sig.b THEN ErrSigNotMatch
    ELSE ErrNil

\* C2: verification returns the failure kind of the first failing step of
\* (1) envelope decodes and parses, (2) applicationId, (3) identifier,
\* (4) expiry, (5) user buffer, (6) MAC, and valid only when all six pass.
C2_FirstFailingStep ==
    phase = "verified" =>
        outcome = FirstFailure(IF request.err # ErrNil THEN request.err
                               ELSE request.dropped,
                               request.sig)

\* C3: when the token's text fails to decode, to decompress or to parse,
\* verification returns that malformed-input error and none of the later
\* checks' results.
C3_MalformedRejected ==
    (phase = "verified" /\ (request.err # ErrNil \/ request.dropped # ErrNil)) =>
        outcome = (IF request.err # ErrNil THEN request.err ELSE request.dropped)

\* the token's applicationId and identifier match the expected ones
C4Case ==
    /\ IssuedVerified
    /\ request.sdkappid = request.sig.SdkAppID
    /\ request.userid = request.sig.Identifier

\* C4 as stated: for a token issued at t with expireSeconds e whose
\* applicationId and identifier match, the outcome is expired exactly when
\* now > t + e (the sum of the two numbers).
C4_ExpiryAsStated ==
    C4Case =>
        (outcome = ErrExpired <=>
            (NoOverflow /\ GtI64(request.now, Add64(issued.time, issued.expire))))

\* C4, amended: provided t + e <= 2^63 - 1, the outcome is expired exactly
\* when now > t + e, and a verification that is not expired ends valid or
\* with a buffer or signature failure.
C4_ExpiryBoundary ==
    (C4Case /\ NoOverflow) =>
        /\ outcome = ErrExpired <=> GtI64(request.now, Add64(issued.time, issued.expire))
        /\ outcome \in {ErrExpired, ErrUserBufTypeNotMatch, ErrUserBufNotMatch,
                        ErrSigNotMatch, ErrNil}

C4_Witness ==
    /\ C4Case
    /\ issued.expire = Word(1)
    /\ request.now = Add64(issued.time, Word(2))
    /\ outcome = ErrExpired

\* applicationId, identifier and expiry checks passed
PassedToBuffer ==
    /\ IssuedVerified
    /\ outcome \notin {ErrSdkAppIDNotMatch, ErrIdentifierNotMatch, ErrExpired}

\* C6: once applicationId, identifier and expiry checks pass, a token issued
\* with no user buffer and verified with a non-nil expected buffer, and a
\* token issued with a user buffer and verified with none, both fail with
\* userbuf-type-mismatch.
C6_PresenceAsymmetry ==
    (PassedToBuffer /\ issued.userbuf.nil # request.userbuf.nil) =>
        outcome = ErrUserBufTypeNotMatch

\* C7: unpacking the token genSig returns yields the document genSig built,
\* equal in every field and in the presence of userBuf, so the verifier's
\* MAC over it is the MAC of issuance.
C7_UnpackInverse ==
    IssuedVerified =>
        /\ request.sig = issued.sigDoc
        /\ sign(request.sig, issued.key) = issued.sigDoc.Sig.b

\* C9: once applicationId, identifier and expiry checks pass and both the
\* token's user buffer and the expected one are present, verification fails
\* with userbuf-mismatch whenever the two differ in a byte or in length.
C9_ByteExact ==
    (/\ PassedToBuffer
     /\ ~issued.userbuf.nil
     /\ ~request.userbuf.nil
     /\ issued.userbuf.b # request.userbuf.b) => outcome = ErrUserBufNotMatch

-----------------------------------------------------------------------------
(* a token changed in one character on its way to the verifier *)

\* the times at which the token at hand is inside its validity window
Window == {issued.time, Add64(issued.time, issued.expire)}

NextTamper ==
    \/ GenUserSig(Word(7), <<107>>, <<97>>, Word(1))
    \/ GenUserSigWithBuf(Word(7), <<107>>, <<97>>, Word(1), Buf(<<1>>))
    \/ ChangeByte
    \/ /\ issued.userbuf.nil
       /\ VerifyUserSig(newUserSig(token), {issued.sdkappid}, {issued.key},
                        {issued.userid}, Window)
    \/ /\ ~issued.userbuf.nil
       /\ VerifyUserSigWithBuf(newUserSig(token), {issued.sdkappid}, {issued.key},
                               {issued.userid}, Window, {issued.userbuf})

SpecTamper == Init /\ [][NextTamper]_vars

\* a changed token has been verified with the arguments of issuance
TamperVerified == phase = "verified" /\ changed # NoChange

-----------------------------------------------------------------------------
(* goroutines calling genSig at the same time: each statement of genSig and *)
(* of newZlibWriter that touches the pool, a writer or a buffer is a step   *)

\* the document goroutine p issues
PoolDoc == [p \in Procs |->
              genSigDoc(Word(7), <<107>>, <<96 + p>>, Word(1), NilBuf, UnixTime(0))]

\* the bytes its buffer holds when w.Close() has returned
PoolStream == [p \in Procs |-> zlibStream(jsonEncode(PoolDoc[p]))]

\* the error of a failed Write to the compressor
ErrWrite == "write error"

Step(m) ==
    /\ SetMem(m)
    /\ UNCHANGED <<clock, phase, issued, token, changed, request, outcome, ubuf>>

\* goroutine p enters genSig: sigDoc is built and signed, b declared
Enter(p) ==
    /\ calls[p].pc = "idle"
    /\ Step(genSigEnter(mem, p, PoolDoc[p]))

\* v := zlibWriterPool.Get(), and for v == nil the new writer
Get(p) ==
    /\ calls[p].pc = "get"
    /\ \E v \in GetResults(mem) : Step(newZlibWriterGet(mem, p, v))

\* zw.Reset(w)
Reset(p) ==
    /\ calls[p].pc = "reset"
    /\ Step(newZlibWriterReset(mem, p))

\* json.NewEncoder(w).Encode(sigDoc) returns nil
Encode(p) ==
    /\ calls[p].pc = "encode"
    /\ Step(genSigEncode(mem, p))

\* json.NewEncoder(w).Encode(sigDoc) returns an error
EncodeFails(p) ==
    /\ calls[p].pc = "encode"
    /\ Step(genSigFail(mem, p, ErrWrite))

\* w.Close() returns nil
Close(p) ==
    /\ calls[p].pc = "close"
    /\ Step(genSigClose(mem, p))

\* w.Close() returns an error
CloseFails(p) ==
    /\ calls[p].pc = "close"
    /\ Step(genSigFail(mem, p, ErrWrite))

\* the deferred zlibWriterPool.Put(w) runs and genSig returns to a caller
\* that is not followed further
Put(p) ==
    /\ calls[p].pc = "put"
    /\ Step([genSigPut(mem, p) EXCEPT !.calls[p].ret = NoRet])

\* the garbage collector empties the pool of one writer
Drop ==
    \E z \in pool :
        Step([mem EXCEPT !.pool = @ \ {z}, !.writers[z] = NoWriter])

NextPool ==
    \/ \E p \in Procs :
          \/ Enter(p)
          \/ Get(p)
          \/ Reset(p)
          \/ Encode(p)
          \/ EncodeFails(p)
          \/ Close(p)
          \/ CloseFails(p)
          \/ Put(p)
    \/ Drop

SpecPool == Init /\ [][NextPool]_vars

IsPrefix(a, b) == Len(a) <= Len(b) /\ a = SubSeq(b, 1, Len(a))

\* the goroutines that hold a writer
Holders(z) == {p \in Procs : calls[p].w = z}

\* C8: under any interleaving of genSig calls a compressor is held by at most
\* one call between its checkout and its return and is not in the pool
\* meanwhile; a call that has returned, with a token or with an error, has
\* put its compressor back; and a call's output buffer holds only bytes
\* written for that call, all of them when the call returns its token.
C8_PoolExclusive ==
    /\ \A z \in WriterIds :
          /\ Cardinality(Holders(z)) <= 1
          /\ Holders(z) # {} => z \notin pool
          /\ writers[z].dst # 0 => (z \in pool \/ Holders(z) # {})
    /\ \A p \in Procs :
          /\ calls[p].pc \in {"idle", "get"} <=> calls[p].w = 0
          /\ calls[p].pc \in {"encode", "close"} =>
                writers[calls[p].w].dst = calls[p].b
          /\ calls[p].b # 0 => IsPrefix(bufs[calls[p].b], PoolStream[p])
          /\ (calls[p].pc = "put" /\ calls[p].ret.err = ErrNil) =>
                /\ bufs[calls[p].b] = PoolStream[p]
                /\ calls[p].ret.token = base64urlEncodeToString(PoolStream[p])

\* one call about to return its token while another has taken a pooled
\* writer that is still bound to the buffer of a finished call
C8_Witness ==
    /\ calls[1].pc = "put"
    /\ calls[1].ret.err = ErrNil
    /\ calls[2].pc = "reset"
    /\ writers[calls[2].w].closed

-----------------------------------------------------------------------------
(* genUserBuf statement by statement: ubuf.k is the statement the call is  *)
(* at (0 before the call, ubSteps + 1 at return userBuf), each run of a    *)
(* loop's body is a step                                                   *)

\* a string of n bytes
LongString(n) == [i \in 1..n |-> 1 + (i % 250)]

UbAccounts     == {<<>>, <<97>>, <<97, 108>>, LongString(258)}
UbSdkAppIds    == {Word(1400000000), <<5, 0, 1, 0>>, Neg64(Word(1))}
UbAuthIDs      == {<<0, 0>>, <<42, 772>>}
UbExpTimes     == {Word(300), Neg64(Word(1))}
UbPrivileges   == {<<255, 0>>}
UbAccountTypes == {<<1, 2>>}
UbRoomStrs     == {<<>>, <<114>>, <<114, 111, 111, 109, 52, 50>>, LongString(257)}

\* genUserBuf is called; userBuf is made
UbCall ==
    /\ ubuf.k = 0
    /\ \E account \in UbAccounts, dwSdkappid \in UbSdkAppIds, dwAuthID \in UbAuthIDs,
          dwExpTime \in UbExpTimes, dwPrivilegeMap \in UbPrivileges,
          dwAccountType \in UbAccountTypes, roomStr \in UbRoomStrs :
          ubuf' = [k    |-> 1,
                   args |-> UserBufArgs(account, dwSdkappid, dwAuthID, dwExpTime,
                                        dwPrivilegeMap, dwAccountType, roomStr,
                                        UnixTime(clock)),
                   u    |-> ubMake(account, roomStr)]
    /\ UNCHANGED <<clock, phase, issued, token, changed, request, outcome,
                   pool, writers, bufs, calls>>

UbNext(k, u) ==
    /\ ubuf' = [ubuf EXCEPT !.k = k, !.u = u]
    /\ UNCHANGED <<clock, phase, issued, token, changed, request, outcome,
                   pool, writers, bufs, calls>>

\* a statement outside the loops
UbStatement ==
    /\ ubuf.k \in (1..ubSteps) \ {3, 10}
    /\ ~ubuf.u.panic
    /\ UbNext(ubuf.k + 1, ubStep(ubuf.k, ubuf.u, ubuf.args))

\* the loop over account: one run of the body, or the exit
UbAccountLoop ==
    /\ ubuf.k = 3
    /\ ubAccountCond(ubuf.u, ubuf.args.account)
    /\ UbNext(3, ubAccountBody(ubuf.u, ubuf.args.account))

UbAccountExit ==
    /\ ubuf.k = 3
    /\ ~ubuf.u.panic
    /\ ~ubAccountCond(ubuf.u, ubuf.args.account)
    /\ UbNext(4, ubuf.u)

\* the loop over roomStr: one run of the body, or the exit
UbRoomLoop ==
    /\ ubuf.k = 10
    /\ ubRoomCond(ubuf.u, ubuf.args.roomStr)
    /\ UbNext(10, ubRoomBody(ubuf.u, ubuf.args.roomStr))

UbRoomExit ==
    /\ ubuf.k = 10
    /\ ~ubuf.u.panic
    /\ ~ubRoomCond(ubuf.u, ubuf.args.roomStr)
    /\ UbNext(11, ubuf.u)

NextUserBuf ==
    \/ Tick
    \/ UbCall
    \/ UbStatement
    \/ UbAccountLoop
    \/ UbAccountExit
    \/ UbRoomLoop
    \/ UbRoomExit

SpecUserBuf == Init /\ [][NextUserBuf]_vars

\* the four bytes, most significant first, of the low 32 bits of a word
BigEndian32(w) ==
    [j \in 1..4 |-> (w[2 - ((j - 1) \div 2)] \div (IF j % 2 = 1 THEN 256 ELSE 1)) % 256]

\* the two bytes, most significant first, of the low 16 bits of n
BigEndian16(n) == <<(n % 65536) \div 256, n % 256>>

\* the layout C10 states for the arguments a
Layout(a) ==
    <<IF a.roomStr # <<>> THEN 1 ELSE 0>>
    \o BigEndian16(Len(a.account)) \o a.account
    \o BigEndian32(a.dwSdkappid)
    \o BigEndian32(a.dwAuthID)
    \o BigEndian32(Add64(a.currTime, a.dwExpTime))
    \o BigEndian32(a.dwPrivilegeMap)
    \o BigEndian32(a.dwAccountType)
    \o (IF a.roomStr # <<>>
        THEN BigEndian16(Len(a.roomStr)) \o a.roomStr ELSE <<>>)

\* C10: genUserBuf allocates 1 + 2 + len(identity) + 20 bytes, and 2 +
\* len(resourceString) more if resourceString is non-empty; it stores only
\* to indices inside that buffer, to each exactly once, and returns the
\* variant byte, the identity length and bytes, applicationId, resourceId,
\* current time + duration, privilegeBitmap and accountTypeTag as four
\* big-endian bytes of their low 32 bits each, and in variant 1 the
\* resourceString's length and bytes.
C10_Layout ==
    ubuf.k > 0 =>
        LET a == ubuf.args
            u == ubuf.u
            n == 1 + 2 + Len(a.account) + 20
                 + (IF a.roomStr # <<>> THEN 2 + Len(a.roomStr) ELSE 0)
        IN  /\ ~u.panic
            /\ Len(u.buf) = n
            /\ u.offset <= n
            /\ \A i \in 1..n : u.hits[i] = (IF i <= u.offset THEN 1 ELSE 0)
            /\ SubSeq(u.buf, 1, u.offset) = SubSeq(Layout(a), 1, u.offset)
            /\ ubuf.k = ubSteps + 1 => (u.offset = n /\ u.buf = Layout(a))

C10_Witness ==
    /\ ubuf.k = ubSteps + 1
    /\ Len(ubuf.args.account) > 256
    /\ Len(ubuf.args.roomStr) > 256
    /\ ubuf.args.dwSdkappid = <<5, 0, 1, 0>>
    /\ ubuf.u.buf[1] = 1

=============================================================================
